---- MODULE Spec2Model ----
(***************************************************************************)
(* A model of @synet/http: the Http unit (src/src/http.unit.ts) and the    *)
(* standalone request functions.  One Http.request execution is a small    *)
(* state machine whose suspension points are the awaited transport call    *)
(* (axios), the awaited backoff delay and the awaited body read; the code  *)
(* between two awaits runs to completion and is one action here.           *)
(***************************************************************************)
EXTENDS Integers, Naturals, Sequences, FiniteSets, TLC

VARIABLES
    props,        \* the Http instance's props (Http.create)
    pc,           \* per execution: where Http.request is suspended
    config,       \* per execution: the HttpRequest descriptor it was given
    requestConfig, \* per execution: request's locals url and requestConfig
    sent,         \* per execution: what the latest transport invocation was called with
    attempt,      \* per execution: executeWithRetries' loop counter
    lastError,    \* per execution: executeWithRetries' lastError
    response,     \* per execution: the Response executeWithRetries returned
    result,       \* per execution: what the promise of Http.request settled to
    calls,        \* per execution: number of transport (axios) invocations so far
    waits,        \* per execution: the backoff delays awaited so far, in order
    outcomes,     \* per execution: how each finished transport invocation ended, in order
    fnPc,         \* standalone request(): where it is suspended
    fnConfig,     \* standalone request(): the HttpRequest it was given
    fnTimer,      \* standalone request(): the setTimeout it armed (timeoutId)
    fnAborted,    \* standalone request(): controller.signal.aborted
    fnCallerAborted, \* standalone request(): config.signal.aborted
    fnResponse,   \* standalone request(): the Response fetch resolved with
    fnResult,     \* standalone request(): what its promise settled to
    jsonArg,      \* parseJson(): the HttpResponse it was last called with
    jsonResult,   \* parseJson(): what that call returned
    rrPc,         \* retryRequest(): where it is suspended
    rrMaxRetries, \* retryRequest(): its maxRetries argument
    rrBaseDelay,  \* retryRequest(): its baseDelay argument
    rrAttempt,    \* retryRequest(): its loop counter
    rrLastError,  \* retryRequest(): its lastError
    rrCalls,      \* retryRequest(): number of requestFn invocations so far
    rrWaits,      \* retryRequest(): the delays awaited so far, in order
    rrThrown,     \* retryRequest(): what each failed requestFn invocation threw, in order
    rrResult,     \* retryRequest(): what its promise settled to
    rsMade,       \* Result: how the Result at hand was built, and from what
    rsObj,        \* Result: the fields of the Result at hand
    rsCall,       \* Result: the latest method call on it, and how it ended
    urlArgs,      \* buildUrl: the path and params of the latest call
    urlHttp,      \* buildUrl: what Http.buildUrl(path, params) returned
    urlFn,        \* buildUrl: what buildUrl(baseUrl, path, params) returned
    now,          \* what Date.now() returns at present
    startTime,    \* Http.request: startTime of each execution
    duration,     \* Http.request: the duration field of each execution's response
    fnStartTime,  \* standalone request(): startTime
    fnDuration,   \* standalone request(): the duration it computed
    onPc,         \* Http.isOnline: where it is suspended
    onTimer,      \* Http.isOnline: its 3000 ms timer
    onResult      \* Http.isOnline: what its promise settled to

httpVars == <<props, pc, config, requestConfig, sent, attempt, lastError,
              response, result, calls, waits, outcomes, startTime, duration>>

fnVars == <<fnPc, fnConfig, fnTimer, fnAborted, fnCallerAborted, fnResponse, fnResult,
            fnStartTime, fnDuration>>

jsonVars == <<jsonArg, jsonResult>>

rrVars == <<rrPc, rrMaxRetries, rrBaseDelay, rrAttempt, rrLastError, rrCalls,
            rrWaits, rrThrown, rrResult>>

\* what a step of Http.request leaves alone, and a step of request()
resVars == <<rsMade, rsObj, rsCall>>

urlVars == <<urlArgs, urlHttp, urlFn>>

pureVars == <<resVars, urlVars>>

onlineVars == <<onPc, onTimer, onResult>>

besideHttp == <<fnVars, jsonVars, rrVars, pureVars, now, onlineVars>>
besideFn == <<httpVars, jsonVars, rrVars, pureVars, now, onlineVars>>

vars == <<httpVars, fnVars, jsonVars, rrVars, pureVars, now, onlineVars>>

---------------------------------------------------------------------------
(* Bounds of the model *)

\* largest retries value given to Http.create
MaxRetries == 3
\* number of Http.request executions the model tracks
MaxExecs == 2

Execs == 1..MaxExecs

---------------------------------------------------------------------------
(* Values *)

\* timeout: config.timeout || 30000
DefaultTimeout == 30000
\* the timeout the caller may configure instead
CustomTimeout == 5000
\* a per-request timeout a descriptor may carry
RequestTimeout == 100

\* retries: config.retries || 0 ; Http.create accepts any number, also negative
RetriesValues == (-1)..MaxRetries

\* validateStatus predicates a caller may configure: none (the default is
\* installed), status < 400, or a predicate that throws
ValidatorKinds == {"default", "lt400", "throws"}

\* status codes the transport may answer with
Statuses == {200, 204, 302, 304, 404, 500}

StatusTextOf(s) ==
    CASE s = 200 -> "OK"
      [] s = 204 -> "No Content"
      [] s = 302 -> "Found"
      [] s = 304 -> "Not Modified"
      [] s = 404 -> "Not Found"
      [] s = 407 -> "Proxy Authentication Required"
      [] s = 500 -> "Internal Server Error"
      [] OTHER   -> ""

\* content-type headers a response may carry; "" is no content-type header
ContentTypes == {"application/json", "application/json; charset=utf-8", "text/plain", ""}

\* body texts a server may send
DataBody == "{\"data\": \"test\"}"
WireBodies == {DataBody, "invalid json {", "\"hello\"", "null", ""}

\* a response as the server sent it: status, statusText ("" over HTTP/2),
\* content-type header and body text
AllAxiosResponses ==
    [ status : Statuses, statusText : {"", "text"},
      contentType : ContentTypes, body : WireBodies ]

\* the JSON responses that differ in status and statusText only
AxiosResponses ==
    { r \in AllAxiosResponses : r.contentType = "application/json" /\ r.body = DataBody }

ResponseText(r) == IF r.statusText = "text" THEN StatusTextOf(r.status) ELSE ""

NoResponse == [present |-> FALSE, status |-> 0, statusText |-> ""]

\* a thrown value.  kind: "AxiosError" (an Error with isAxiosError = true),
\* "Error" (any other Error), "value" (not an Error; message is String(value)),
\* "none" (undefined)
Thrown(kind, code, message, resp) ==
    [kind |-> kind, code |-> code, message |-> message, response |-> resp]

NoError == Thrown("none", "", "", NoResponse)

ErrResponse(s, t) == [present |-> TRUE, status |-> s, statusText |-> t]

\* what one transport invocation may throw of its own accord
TransportErrors ==
    { Thrown("AxiosError", "ENOTFOUND", "getaddrinfo ENOTFOUND api.example.com", NoResponse),
      Thrown("AxiosError", "", "Proxy Authentication Required", ErrResponse(407, StatusTextOf(407))),
      Thrown("AxiosError", "ERR_BAD_RESPONSE", "Request failed with status code 407", ErrResponse(407, "")),
      Thrown("AxiosError", "", "Unsupported protocol ftp:", NoResponse),
      Thrown("Error", "ERR_INVALID_URL", "Invalid URL", NoResponse),
      Thrown("Error", "", "socket hang up", NoResponse),
      Thrown("value", "", "boom", NoResponse) }

\* axios' own error when its timeout option elapses
TimeoutError(ms) ==
    Thrown("AxiosError", "ECONNABORTED", "timeout of " \o ToString(ms) \o "ms exceeded", NoResponse)

\* axios' CanceledError when the signal it was given fires
CanceledError == Thrown("AxiosError", "ERR_CANCELED", "canceled", NoResponse)

IsError(v) == v.kind \in {"AxiosError", "Error"}

\* axios.isAxiosError(payload), and request's
\* error instanceof Error && 'isAxiosError' in error && error.isAxiosError
IsAxiosError(v) == v.kind = "AxiosError"

\* a header object (Record<string, string>): its properties in insertion
\* order; property names are case-sensitive
Header(name, value) == [name |-> name, value |-> value]

NoHeaders == << >>

HasKey(h, k) == \E i \in 1..Len(h) : h[i].name = k

\* h[k] = v: an existing property keeps its place, a new one goes last
SetKey(h, k, v) ==
    IF HasKey(h, k)
    THEN [i \in 1..Len(h) |-> IF h[i].name = k THEN Header(k, v) ELSE h[i]]
    ELSE Append(h, Header(k, v))

\* { ...a, ...b }: a fresh object with a's properties, then b's assigned in order
RECURSIVE Spread(_, _)
Spread(a, b) ==
    IF b = << >> THEN a
    ELSE Spread(SetKey(a, Head(b).name, Head(b).value), Tail(b))

\* the headers a descriptor may carry
DescriptorHeaders ==
    { NoHeaders,
      << Header("Authorization", "Bearer token") >>,
      << Header("Content-Type", "text/plain") >>,
      << Header("content-type", "text/plain") >> }

\* defaultHeaders: config.defaultHeaders || { 'Content-Type': 'application/json' }
StandardHeaders == << Header("Content-Type", "application/json") >>
\* default headers a caller may configure instead
CustomHeaders == << Header("Authorization", "Bearer default") >>

\* n slashes
RECURSIVE Slashes(_)
Slashes(n) == IF n = 0 THEN "" ELSE "/" \o Slashes(n - 1)

\* a base URL: its text is origin, then trail slashes; an origin ends in no
\* slash, and origin "" with no slash is no base URL
BaseUrl(origin, trail) == [origin |-> origin, trail |-> trail]
NoBaseUrl == BaseUrl("", 0)
BaseUrls ==
    { NoBaseUrl, BaseUrl("https://api.example.com", 0),
      BaseUrl("https://api.example.com", 1) }
BaseText(b) == b.origin \o Slashes(b.trail)

\* a request URL: its text is scheme, then lead slashes, then rest; a scheme
\* (http:// or https://) makes it absolute, and rest begins with no slash
Path(scheme, lead, rest) == [scheme |-> scheme, lead |-> lead, rest |-> rest]
PathText(p) == p.scheme \o Slashes(p.lead) \o p.rest
UsersPath == Path("", 1, "users")
Paths ==
    { UsersPath, Path("", 0, "items/1"),
      Path("https://", 0, "other.example.com/items/2") }

\* HttpRequest descriptors: body absent, a string, an object, or an object
\* JSON.stringify throws on (circular, BigInt); signal present or not;
\* timeout absent (0) or given; url; headers
AllDescriptors ==
    [ body : {"none", "string", "object", "unserializable"},
      signal : BOOLEAN,
      timeout : {0, RequestTimeout},
      url : Paths,
      headers : DescriptorHeaders ]

\* the descriptors that differ in body, signal and timeout only
Descriptors == { d \in AllDescriptors : d.url = UsersPath /\ d.headers = NoHeaders }

\* the descriptors that differ in body, timeout, url and headers only
WireDescriptors == { d \in AllDescriptors : ~d.signal }

NoConfig ==
    [body |-> "none", signal |-> FALSE, timeout |-> 0, url |-> Path("", 0, ""),
     headers |-> NoHeaders]

---------------------------------------------------------------------------
(* Result (Result.success / Result.fail) *)

\* HttpResponse with ok following what a lenient validator accepts
HttpResponseOkBelow400(url, status, statusText, contentType, body) ==
    [ url |-> url, status |-> status, statusText |-> statusText,
      ok |-> (status >= 200 /\ status < 400),
      contentType |-> contentType, body |-> body ]

\* an HttpResponse: contentType is headers['content-type'], "" when absent
HttpResponse(url, status, statusText, contentType, body) ==
    [ url |-> url, status |-> status, statusText |-> statusText,
      ok |-> (status >= 200 /\ status <= 299),
      contentType |-> contentType, body |-> body ]

NoValue == HttpResponse("", 0, "", "", "")

\* a JavaScript value: what typeof says of it, and its text (a string's
\* characters, JSON.stringify's text of anything else)
JsValue(type, text) == [typeof |-> type, text |-> text]
Undefined == JsValue("undefined", "")
Null == JsValue("object", "null")

\* Result.success({response: value, parsed, ...})
Success(value, parsed) ==
    [tag |-> "success", error |-> "", cause |-> NoError, value |-> value,
     parsed |-> parsed]

Fail(error, cause) ==
    [tag |-> "failure", error |-> error, cause |-> cause, value |-> NoValue,
     parsed |-> Undefined]

\* the promise is still pending
Pending ==
    [tag |-> "pending", error |-> "", cause |-> NoError, value |-> NoValue,
     parsed |-> Undefined]

\* the promise rejected with `cause`
Rejected(cause) ==
    [tag |-> "rejected", error |-> "", cause |-> cause, value |-> NoValue,
     parsed |-> Undefined]

---------------------------------------------------------------------------
(* Http.create *)

\* what a caller may pass to Http.create; timeout 0, baseUrl NoBaseUrl and
\* defaultHeaders NoHeaders stand for "not given"
AllHttpConfigs ==
    [ retries : RetriesValues,
      timeout : {0, CustomTimeout},
      validateStatus : ValidatorKinds,
      baseUrl : BaseUrls,
      defaultHeaders : {NoHeaders, CustomHeaders} ]

\* the configurations that differ in retries, timeout and validateStatus only
HttpConfigs ==
    { c \in AllHttpConfigs : c.baseUrl = NoBaseUrl /\ c.defaultHeaders = NoHeaders }

\* the configurations that differ in timeout, baseUrl and defaultHeaders, with
\* no retry or one
WireConfigs ==
    { c \in AllHttpConfigs : c.retries \in {0, 1} /\ c.validateStatus = "default" }

Create(cfg) ==
    [ baseUrl        |-> cfg.baseUrl,
      retries        |-> IF cfg.retries # 0 THEN cfg.retries ELSE 0,
      timeout        |-> IF cfg.timeout # 0 THEN cfg.timeout ELSE DefaultTimeout,
      defaultHeaders |-> IF cfg.defaultHeaders # NoHeaders THEN cfg.defaultHeaders
                                                            ELSE StandardHeaders,
      validateStatus |-> cfg.validateStatus ]

---------------------------------------------------------------------------
(* Pure parts of Http.request *)

\* props.validateStatus(status): "accept", "reject", or "throws" when the
\* configured predicate throws
ValidateStatus(kind, status) ==
    CASE kind = "default" -> IF status >= 200 /\ status < 300 THEN "accept" ELSE "reject"
      [] kind = "lt400"   -> IF status < 400 THEN "accept" ELSE "reject"
      [] OTHER            -> "throws"

\* what a throwing validateStatus predicate throws
ValidatorError == Thrown("Error", "", "validator failed", NoResponse)

\* JSON.stringify's TypeError on a circular structure or a BigInt
StringifyError == Thrown("Error", "", "Converting circular structure to JSON", NoResponse)

\* the statuses a Response may not carry a body with (Fetch: null body status)
NullBodyStatuses == {101, 103, 204, 205, 304}

\* new Response(responseText, {status, ...}): the constructor throws a RangeError
\* for a status outside 200..599 and a TypeError for a null body status given
\* a non-null body; responseText is a string (axios data is never undefined)
ResponseCtorThrows(r) ==
    \/ r.status < 200
    \/ r.status > 599
    \/ r.status \in NullBodyStatuses

ResponseCtorError(r) ==
    Thrown("Error", "",
           "Response constructor: Invalid response status code " \o ToString(r.status),
           NoResponse)

\* JSON.parse(text): whether it returns, and the value it returns
JsonParse(text) ==
    CASE text = "{\"data\": \"test\"}" -> [ok |-> TRUE, value |-> JsValue("object", "{\"data\":\"test\"}")]
      [] text = "{\"data\":\"test\"}"  -> [ok |-> TRUE, value |-> JsValue("object", "{\"data\":\"test\"}")]
      [] text = "\"hello\""            -> [ok |-> TRUE, value |-> JsValue("string", "hello")]
      [] text = "null"                 -> [ok |-> TRUE, value |-> Null]
      [] OTHER                         -> [ok |-> FALSE, value |-> Undefined]

\* axiosResponse.data: axios' default transformResponse parses a non-empty
\* body as JSON whatever its content type and keeps the text when that fails
AxiosData(body) ==
    IF body # "" /\ JsonParse(body).ok THEN JsonParse(body).value
    ELSE JsValue("string", body)

\* responseText: typeof data === 'string' ? data : JSON.stringify(data)
ResponseTextOf(data) == data.text

\* buildHttpResponse: the url requested, the Response's status, statusText,
\* headers and text; ok is Response.ok, i.e. 200 <= status <= 299
BuildHttpResponse(url, r) ==
    HttpResponse(url, r.status, ResponseText(r), r.contentType,
                 ResponseTextOf(AxiosData(r.body)))

\* contentType.includes('application/json')
IncludesJson(contentType) ==
    contentType \in {"application/json", "application/json; charset=utf-8"}

\* TryParseJson with the content type not looked at
TryParseJsonAnyType(h) ==
    IF JsonParse(h.body).ok THEN JsonParse(h.body).value ELSE Undefined

\* tryParseJson(response): undefined unless the content type includes
\* application/json and JSON.parse returns
TryParseJson(h) ==
    IF ~IncludesJson(h.contentType) THEN Undefined
    ELSE IF JsonParse(h.body).ok THEN JsonParse(h.body).value
    ELSE Undefined

\* the standalone parseJson(response): null where tryParseJson has undefined
ParseJson(h) ==
    IF ~IncludesJson(h.contentType) THEN [threw |-> FALSE, value |-> Null]
    ELSE IF JsonParse(h.body).ok THEN [threw |-> FALSE, value |-> JsonParse(h.body).value]
    ELSE [threw |-> FALSE, value |-> Null]

\* the delay awaited after failed attempt `a`: 1000 * (attempt + 1)
BackoffDelay(a) == 1000 * (a + 1)

\* lastError = error instanceof Error ? error : new Error(String(error))
AsError(v) == IF IsError(v) THEN v ELSE Thrown("Error", "", v.message, NoResponse)

\* CatchRequest with the final fallback rethrowing instead of returning
CatchRequestRethrows(error) ==
    IF IsError(error) /\ IsAxiosError(error) /\ error.response.present
    THEN Fail("HTTP " \o ToString(error.response.status) \o ": " \o
              (IF error.response.statusText # "" THEN error.response.statusText
                                                  ELSE error.message),
              error)
    ELSE IF IsError(error) /\ IsAxiosError(error) /\ error.code # ""
    THEN Fail("Network error " \o error.code \o ": " \o error.message, error)
    ELSE Rejected(error)

\* CatchRequest with the error code tested before the response
CatchRequestCodeFirst(error) ==
    IF IsError(error) /\ IsAxiosError(error) /\ error.code # ""
    THEN Fail("Network error " \o error.code \o ": " \o error.message, error)
    ELSE IF IsError(error) /\ IsAxiosError(error) /\ error.response.present
    THEN Fail("HTTP " \o ToString(error.response.status) \o ": " \o
              (IF error.response.statusText # "" THEN error.response.statusText
                                                  ELSE error.message),
              error)
    ELSE Fail("HTTP request failed: " \o error.message, error)

\* CatchRequest without the error-code branch
CatchRequestNoCode(error) ==
    IF IsError(error) /\ IsAxiosError(error) /\ error.response.present
    THEN Fail("HTTP " \o ToString(error.response.status) \o ": " \o
              (IF error.response.statusText # "" THEN error.response.statusText
                                                  ELSE error.message),
              error)
    ELSE Fail("HTTP request failed: " \o error.message, error)

\* CatchRequest with a timeout (ECONNABORTED) given a message of its own
CatchRequestTimeoutApart(error) ==
    IF IsError(error) /\ IsAxiosError(error) /\ error.response.present
    THEN Fail("HTTP " \o ToString(error.response.status) \o ": " \o
              (IF error.response.statusText # "" THEN error.response.statusText
                                                  ELSE error.message),
              error)
    ELSE IF IsError(error) /\ IsAxiosError(error) /\ error.code = "ECONNABORTED"
    THEN Fail("Request timed out after " \o ToString(props.timeout) \o "ms", error)
    ELSE IF IsError(error) /\ IsAxiosError(error) /\ error.code # ""
    THEN Fail("Network error " \o error.code \o ": " \o error.message, error)
    ELSE Fail("HTTP request failed: " \o error.message, error)

\* the catch block of Http.request: the failure built from what was thrown
CatchRequest(error) ==
    IF IsError(error) /\ IsAxiosError(error) /\ error.response.present
    THEN Fail("HTTP " \o ToString(error.response.status) \o ": " \o
              (IF error.response.statusText # "" THEN error.response.statusText
                                                  ELSE error.message),
              error)
    ELSE IF IsError(error) /\ IsAxiosError(error) /\ error.code # ""
    THEN Fail("Network error " \o error.code \o ": " \o error.message, error)
    ELSE Fail("HTTP request failed: " \o error.message, error)

\* the failure returned for a status validateStatus rejects
StatusFailure(h) ==
    Fail("HTTP " \o ToString(h.status) \o ": " \o h.statusText,
         Thrown("Error", "", "Request failed with status " \o ToString(h.status), NoResponse))

\* throw lastError || new Error('Request failed after all retries')
ExhaustedError(le) ==
    IF le.kind # "none" THEN le
    ELSE Thrown("Error", "", "Request failed after all retries", NoResponse)

\* StringifyThrows with every body taken as serializable
StringifyNeverThrows(cfg) == FALSE

\* JSON.stringify(config.body) throws
StringifyThrows(cfg) == cfg.body = "unserializable"

\* resolveUrl(path): an absolute path as it is; without a base URL the path as
\* it is; else the base without one trailing slash, "/", the path without one
\* leading slash
StartsWithScheme(path) == path.scheme \in {"http://", "https://"}

\* text.replace(/\/$/, '') on a base URL, text.replace(/^\//, '') on a path
StripTrailingSlash(base) ==
    base.origin \o Slashes(IF base.trail = 0 THEN 0 ELSE base.trail - 1)
StripLeadingSlash(path) ==
    path.scheme \o Slashes(IF path.lead = 0 THEN 0 ELSE path.lead - 1) \o path.rest

\* ResolveUrl joining an absolute path to the base as well
ResolveUrlJoins(base, path) ==
    IF BaseText(base) = "" THEN PathText(path)
    ELSE StripTrailingSlash(base) \o "/" \o StripLeadingSlash(path)

ResolveUrl(base, path) ==
    IF StartsWithScheme(path) THEN PathText(path)
    ELSE IF BaseText(base) = "" THEN PathText(path)
    ELSE StripTrailingSlash(base) \o "/" \o StripLeadingSlash(path)

\* a request body: undefined, or a string
NoBody == [defined |-> FALSE, text |-> ""]
BodyOf(text) == [defined |-> TRUE, text |-> text]

\* the body buildRequestConfig hands on: a string as it is, an object as
\* JSON.stringify's text
BuildBody(cfg) ==
    CASE cfg.body = "none"   -> NoBody
      [] cfg.body = "string" -> BodyOf("raw string data")
      [] OTHER               -> BodyOf("{\"test\":\"data\"}")

\* config.body !== undefined && typeof config.body !== 'string'
Structured(cfg) == cfg.body \notin {"none", "string"}

\* buildRequestConfig's headers: { ...defaultHeaders, ...config.headers }, with
\* headers['Content-Type'] = 'application/json' for a structured body
MergedHeaders(defaults, cfg) ==
    IF Structured(cfg)
    THEN SetKey(Spread(defaults, cfg.headers), "Content-Type", "application/json")
    ELSE Spread(defaults, cfg.headers)

\* DefaultsAfterBuild with the headers merged into the defaults object itself
DefaultsAfterBuildShared(defaults, cfg) == MergedHeaders(defaults, cfg)

\* this.props.defaultHeaders after buildRequestConfig: the spread copied its
\* properties into a fresh object, so the assignments went to the copy
DefaultsAfterBuild(defaults, cfg) == defaults

\* buildRequestConfig(config), with request's local url beside it
BuildRequestConfig(p, cfg) ==
    [ url     |-> ResolveUrl(p.baseUrl, cfg.url),
      headers |-> MergedHeaders(p.defaultHeaders, cfg),
      body    |-> BuildBody(cfg),
      signal  |-> cfg.signal ]

NoRequestConfig == [url |-> "", headers |-> NoHeaders, body |-> NoBody, signal |-> FALSE]

\* header names as the transport sends them: HTTP header names are
\* case-insensitive, the transport folds the object's property names
HeaderNames == {"content-type", "authorization"}

Lower(name) ==
    CASE name = "Content-Type"  -> "content-type"
      [] name = "Authorization" -> "authorization"
      [] OTHER                  -> name

\* the value axios sends for a header: it sets the object's properties in
\* order into its case-insensitive AxiosHeaders, a later one replacing an
\* earlier one of the same name; "" when there is none
RECURSIVE AxiosHeader(_, _)
AxiosHeader(h, lname) ==
    IF h = << >> THEN ""
    ELSE IF Lower(h[Len(h)].name) = lname THEN h[Len(h)].value
    ELSE AxiosHeader(SubSeq(h, 1, Len(h) - 1), lname)

\* the timeout option of the axios call: timeout: this.props.timeout
TimeoutSent(p, cfg) == p.timeout

\* the config object axios is called with
AxiosCall(p, cfg, rc) ==
    [ url     |-> rc.url,
      headers |-> [n \in HeaderNames |-> AxiosHeader(rc.headers, n)],
      body    |-> rc.body,
      timeout |-> TimeoutSent(p, cfg),
      signal  |-> rc.signal ]

NoCall ==
    [url |-> "", headers |-> [n \in HeaderNames |-> ""], body |-> NoBody,
     timeout |-> 0, signal |-> FALSE]

\* MoreAttempts with a wait scheduled after the final attempt as well
MoreAttemptsInclusive(a, retries) == a <= retries

\* the retry decision of executeWithRetries' catch: attempt < this.props.retries
MoreAttempts(a, retries) == a < retries

\* the loop condition of executeWithRetries: attempt <= this.props.retries
LoopCondition(a, retries) == a <= retries

---------------------------------------------------------------------------
(* Http.request, one action per run-to-completion step *)

\* how one transport invocation ended: kind is "response" (axios resolved),
\* "throw" (axios rejected of its own accord), "timeout" (axios' timeout
\* elapsed) or "abort" (the caller's signal fired); status is the response's
Outcome(kind, status) == [kind |-> kind, status |-> status]

\* Date.now() - startTime
Elapsed(start) == now - start

\* no execution has started
InitExecs ==
    /\ startTime = [e \in Execs |-> 0]
    /\ duration = [e \in Execs |-> 0]
    /\ pc = [e \in Execs |-> "idle"]
    /\ config = [e \in Execs |-> NoConfig]
    /\ requestConfig = [e \in Execs |-> NoRequestConfig]
    /\ sent = [e \in Execs |-> NoCall]
    /\ attempt = [e \in Execs |-> 0]
    /\ lastError = [e \in Execs |-> NoError]
    /\ response = [e \in Execs |-> NoValue]
    /\ result = [e \in Execs |-> Pending]
    /\ calls = [e \in Execs |-> 0]
    /\ waits = [e \in Execs |-> << >>]
    /\ outcomes = [e \in Execs |-> << >>]

InitHttp ==
    /\ props \in { Create(c) : c \in HttpConfigs }
    /\ InitExecs

\* Settle with the latest result kept in one place for all executions
SettleShared(e, res) ==
    /\ pc' = [pc EXCEPT ![e] = "done"]
    /\ result' = [x \in Execs |-> res]

\* request's promise settles: return from try or from catch
Settle(e, res) ==
    /\ pc' = [pc EXCEPT ![e] = "done"]
    /\ result' = [result EXCEPT ![e] = res]

\* the head of executeWithRetries' for loop with the counter at `a`: invoke the
\* transport, or leave the loop and throw
LoopHead(e, a, le, cfg, rc) ==
    /\ attempt' = [attempt EXCEPT ![e] = a]
    /\ lastError' = [lastError EXCEPT ![e] = le]
    /\ IF LoopCondition(a, props.retries)
       THEN /\ pc' = [pc EXCEPT ![e] = "attempting"]
            /\ calls' = [calls EXCEPT ![e] = @ + 1]
            /\ sent' = [sent EXCEPT ![e] = AxiosCall(props, cfg, rc)]
            /\ UNCHANGED result
       ELSE /\ Settle(e, CatchRequest(ExhaustedError(le)))
            /\ UNCHANGED <<calls, sent>>

\* Http.request up to its first await: buildRequestConfig, then the first
\* transport invocation
Request(e, cfg) ==
    /\ pc[e] = "idle"
    /\ config' = [config EXCEPT ![e] = cfg]
    /\ props' = [props EXCEPT
                    !.defaultHeaders = DefaultsAfterBuild(props.defaultHeaders, cfg)]
    /\ IF StringifyThrows(cfg)
       THEN /\ Settle(e, CatchRequest(StringifyError))
            /\ UNCHANGED <<requestConfig, sent, attempt, lastError, calls>>
       ELSE /\ requestConfig' = [requestConfig EXCEPT
                                    ![e] = BuildRequestConfig(props, cfg)]
            /\ LoopHead(e, 0, NoError, cfg, BuildRequestConfig(props, cfg))
    /\ startTime' = [startTime EXCEPT ![e] = now]
    /\ UNCHANGED <<response, waits, outcomes, duration, besideHttp>>

\* get(url, options): request({url, method: 'GET', ...options})
Get(e, options) == Request(e, options)

\* post(url, data, options): request({url, method: 'POST', body: data, ...options});
\* a body among the options overrides data
Post(e, data, options) ==
    Request(e, [options EXCEPT !.body = IF options.body # "none" THEN options.body ELSE data])

\* put(url, data, options): request({url, method: 'PUT', body: data, ...options})
Put(e, data, options) ==
    Request(e, [options EXCEPT !.body = IF options.body # "none" THEN options.body ELSE data])

\* delete(url, options): request({url, method: 'DELETE', ...options})
Delete(e, options) == Request(e, options)

\* the catch block of executeWithRetries with `error` caught
CatchAttempt(e, error) ==
    /\ lastError' = [lastError EXCEPT ![e] = AsError(error)]
    /\ IF IsAxiosError(error)
       THEN /\ Settle(e, CatchRequest(error))
            /\ UNCHANGED waits
       ELSE IF MoreAttempts(attempt[e], props.retries)
       THEN /\ pc' = [pc EXCEPT ![e] = "delaying"]
            /\ waits' = [waits EXCEPT ![e] = Append(@, BackoffDelay(attempt[e]))]
            /\ UNCHANGED result
       ELSE /\ Settle(e, CatchRequest(ExhaustedError(AsError(error))))
            /\ UNCHANGED waits

\* the awaited axios call resolves with a response
TransportReturns(e, r) ==
    /\ pc[e] = "attempting"
    /\ outcomes' = [outcomes EXCEPT ![e] = Append(@, Outcome("response", r.status))]
    /\ IF ResponseCtorThrows(r)
       THEN /\ CatchAttempt(e, ResponseCtorError(r))
            /\ UNCHANGED response
       ELSE /\ pc' = [pc EXCEPT ![e] = "reading"]
            /\ response' = [response EXCEPT
                              ![e] = BuildHttpResponse(requestConfig[e].url, r)]
            /\ UNCHANGED <<lastError, result, waits>>
    /\ UNCHANGED <<props, config, requestConfig, sent, attempt, calls, startTime, duration, besideHttp>>

\* the awaited axios call rejects with an error of the transport's own
TransportThrows(e, error) ==
    /\ pc[e] = "attempting"
    /\ outcomes' = [outcomes EXCEPT ![e] = Append(@, Outcome("throw", 0))]
    /\ CatchAttempt(e, error)
    /\ UNCHANGED <<props, config, requestConfig, sent, attempt, calls, response, startTime, duration, besideHttp>>

\* the timeout given to axios (timeout: this.props.timeout) elapses first
TransportTimesOut(e) ==
    /\ pc[e] = "attempting"
    /\ outcomes' = [outcomes EXCEPT ![e] = Append(@, Outcome("timeout", 0))]
    /\ CatchAttempt(e, TimeoutError(props.timeout))
    /\ UNCHANGED <<props, config, requestConfig, sent, attempt, calls, response, startTime, duration, besideHttp>>

\* the caller's signal (signal: fetchOptions.signal || undefined) fires first
TransportAborted(e) ==
    /\ pc[e] = "attempting"
    /\ config[e].signal
    /\ outcomes' = [outcomes EXCEPT ![e] = Append(@, Outcome("abort", 0))]
    /\ CatchAttempt(e, CanceledError)
    /\ UNCHANGED <<props, config, requestConfig, sent, attempt, calls, response, startTime, duration, besideHttp>>

\* the awaited backoff delay elapses: attempt++ and the loop goes round
DelayElapses(e) ==
    /\ pc[e] = "delaying"
    /\ LoopHead(e, attempt[e] + 1, lastError[e], config[e], requestConfig[e])
    /\ UNCHANGED <<props, config, requestConfig, response, waits, outcomes, startTime, duration, besideHttp>>

\* buildHttpResponse's awaited response.text() resolves; then the status is
\* validated and the result returned
ReadBody(e) ==
    /\ pc[e] = "reading"
    /\ LET v == ValidateStatus(props.validateStatus, response[e].status) IN
       Settle(e, CASE v = "throws" -> CatchRequest(ValidatorError)
                   [] v = "reject" -> StatusFailure(response[e])
                   [] OTHER        -> Success(response[e], TryParseJson(response[e])))
    /\ duration' = [duration EXCEPT ![e] = Elapsed(startTime[e])]
    /\ UNCHANGED <<props, config, requestConfig, sent, attempt, lastError, response,
                   calls, waits, outcomes, startTime, besideHttp>>

\* the bodies a caller may hand to post / put
Bodies == {"none", "string", "object", "unserializable"}

HttpStep(e) ==
    \/ \E cfg \in Descriptors : Request(e, cfg)
    \/ \E options \in Descriptors : Get(e, options)
    \/ \E data \in Bodies, options \in Descriptors : Post(e, data, options)
    \/ \E data \in Bodies, options \in Descriptors : Put(e, data, options)
    \/ \E options \in Descriptors : Delete(e, options)
    \/ \E r \in AxiosResponses : TransportReturns(e, r)
    \/ \E error \in TransportErrors : TransportThrows(e, error)
    \/ TransportTimesOut(e)
    \/ TransportAborted(e)
    \/ DelayElapses(e)
    \/ ReadBody(e)

---------------------------------------------------------------------------
(* The standalone request(config) function *)

\* the errors fetch may reject with of its own accord (a network failure)
FetchErrors == { Thrown("Error", "", "fetch failed", NoResponse) }

\* the DOMException fetch rejects with when its signal aborts; its code field
\* holds the error's name
AbortError == Thrown("Error", "AbortError", "This operation was aborted", NoResponse)

FnPending == [tag |-> "pending", value |-> NoValue, cause |-> NoError]
FnResolved(value) == [tag |-> "resolved", value |-> value, cause |-> NoError]
FnRejected(cause) == [tag |-> "rejected", value |-> NoValue, cause |-> cause]

\* the response request() returns from its catch block for an AbortError
TimeoutResponse == HttpResponse(PathText(fnConfig.url), 408, "Request Timeout", "", "")

InitFn ==
    /\ fnStartTime = 0
    /\ fnDuration = 0
    /\ fnPc = "idle"
    /\ fnConfig = NoConfig
    /\ fnTimer = "none"
    /\ fnAborted = FALSE
    /\ fnCallerAborted = FALSE
    /\ fnResponse = NoValue
    /\ fnResult = FnPending

\* signal: config.signal || controller.signal -- the signal fetch listens to
FetchSignal(cfg) == IF cfg.signal THEN "caller" ELSE "controller"

\* finally { if (timeoutId) clearTimeout(timeoutId) }
ClearTimer(t) == IF t = "armed" THEN "cleared" ELSE t

\* FnCatch with every error rethrown
FnCatchRethrows(error) == FnRejected(error)

\* the catch block of request(): an AbortError becomes the 408 response, any
\* other error is rethrown
FnCatch(error) ==
    IF IsError(error) /\ error.code = "AbortError"
    THEN FnResolved(TimeoutResponse)
    ELSE FnRejected(error)

\* request() up to its first await: arm the timer, build headers and body,
\* call fetch
FnRequest(cfg) ==
    /\ fnPc = "idle"
    /\ fnConfig' = cfg
    /\ IF StringifyThrows(cfg)
       THEN /\ fnPc' = "done"
            /\ fnResult' = FnCatch(StringifyError)
            /\ fnTimer' = ClearTimer(IF cfg.timeout # 0 THEN "armed" ELSE "none")
       ELSE /\ fnPc' = "fetching"
            /\ fnTimer' = IF cfg.timeout # 0 THEN "armed" ELSE "none"
            /\ UNCHANGED fnResult
    /\ fnStartTime' = now
    /\ fnDuration' = IF StringifyThrows(cfg) THEN 0 ELSE fnDuration
    /\ UNCHANGED <<fnAborted, fnCallerAborted, fnResponse, besideFn>>

\* the timer fires: controller.abort(); the fetch (or body read) in flight is
\* aborted if it listens to the controller's signal
FnTimerFires ==
    /\ fnTimer = "armed"
    /\ fnTimer' = "fired"
    /\ fnAborted' = TRUE
    /\ fnPc' = IF fnPc \in {"fetching", "reading"} /\ FetchSignal(fnConfig) = "controller"
               THEN "aborted" ELSE fnPc
    /\ UNCHANGED <<fnConfig, fnCallerAborted, fnResponse, fnResult, fnStartTime, fnDuration, besideFn>>

\* the caller's signal fires while the call is in flight
FnCallerAborts ==
    /\ fnConfig.signal
    /\ ~fnCallerAborted
    /\ fnPc \in {"fetching", "reading"}
    /\ fnCallerAborted' = TRUE
    /\ fnPc' = IF FetchSignal(fnConfig) = "caller" THEN "aborted" ELSE fnPc
    /\ UNCHANGED <<fnConfig, fnTimer, fnAborted, fnResponse, fnResult, fnStartTime, fnDuration, besideFn>>

\* the awaited fetch resolves with a response
FnFetchResolves(s) ==
    /\ fnPc = "fetching"
    /\ fnPc' = "reading"
    /\ fnResponse' = HttpResponse(PathText(fnConfig.url), s, StatusTextOf(s),
                                  "application/json", DataBody)
    /\ UNCHANGED <<fnConfig, fnTimer, fnAborted, fnCallerAborted, fnResult, fnStartTime, fnDuration, besideFn>>

\* the awaited fetch rejects with an error of its own (a network failure)
FnFetchRejects(error) ==
    /\ fnPc = "fetching"
    /\ fnPc' = "done"
    /\ fnResult' = FnCatch(error)
    /\ fnTimer' = ClearTimer(fnTimer)
    /\ fnDuration' = Elapsed(fnStartTime)
    /\ UNCHANGED <<fnConfig, fnAborted, fnCallerAborted, fnResponse, fnStartTime, besideFn>>

\* the awaited response.text() resolves: the response is returned
FnTextResolves ==
    /\ fnPc = "reading"
    /\ fnPc' = "done"
    /\ fnResult' = FnResolved(fnResponse)
    /\ fnTimer' = ClearTimer(fnTimer)
    /\ fnDuration' = Elapsed(fnStartTime)
    /\ UNCHANGED <<fnConfig, fnAborted, fnCallerAborted, fnResponse, fnStartTime, besideFn>>

\* the awaited fetch (or body read) was aborted and rejects with an AbortError
FnCatchAbort ==
    /\ fnPc = "aborted"
    /\ fnPc' = "done"
    /\ fnResult' = FnCatch(AbortError)
    /\ fnTimer' = ClearTimer(fnTimer)
    /\ fnDuration' = Elapsed(fnStartTime)
    /\ UNCHANGED <<fnConfig, fnAborted, fnCallerAborted, fnResponse, fnStartTime, besideFn>>

FnStep ==
    \/ \E cfg \in Descriptors : FnRequest(cfg)
    \/ FnTimerFires
    \/ FnCallerAborts
    \/ \E s \in Statuses : FnFetchResolves(s)
    \/ \E error \in FetchErrors : FnFetchRejects(error)
    \/ FnTextResolves
    \/ FnCatchAbort

---------------------------------------------------------------------------
(* The standalone parseJson(response) function *)

\* the responses parseJson may be handed
JsonArgs ==
    { HttpResponse("https://api.example.com", 200, "OK", t, b) :
        t \in ContentTypes, b \in WireBodies \cup {"{\"data\":\"test\"}", "hello"} }

NotCalled == [threw |-> FALSE, value |-> Undefined]

InitJson ==
    /\ jsonArg = NoValue
    /\ jsonResult = NotCalled

\* a call parseJson(h)
CallParseJson(h) ==
    /\ jsonArg' = h
    /\ jsonResult' = ParseJson(h)
    /\ UNCHANGED <<now, onlineVars, httpVars, fnVars, rrVars, pureVars>>

---------------------------------------------------------------------------
(* The standalone retryRequest(requestFn, maxRetries, baseDelay) function *)

\* baseDelay = 100 by default
DefaultBaseDelay == 100
\* a base delay the caller may pass instead
CustomBaseDelay == 50

\* what invocation n of requestFn may throw: an Error, or a value that is none
RequestFnErrors(n) ==
    { Thrown("Error", "", "Error " \o ToString(n), NoResponse),
      Thrown("value", "", "boom " \o ToString(n), NoResponse) }

\* what invocation n of requestFn may resolve with
RequestFnResponses(n) ==
    { HttpResponse("https://api.example.com", s, StatusTextOf(s), "application/json",
                   "{\"call\": " \o ToString(n) \o "}") : s \in {200, 500} }

InitRetry ==
    /\ rrPc = "idle"
    /\ rrMaxRetries = 0
    /\ rrBaseDelay = 0
    /\ rrAttempt = 0
    /\ rrLastError = NoError
    /\ rrCalls = 0
    /\ rrWaits = << >>
    /\ rrThrown = << >>
    /\ rrResult = FnPending

\* RrLoopCondition with the last attempt left out
RrLoopConditionStrict(a, maxRetries) == a < maxRetries

\* the loop condition of retryRequest: attempt <= maxRetries
RrLoopCondition(a, maxRetries) == a <= maxRetries

\* the wait decision of retryRequest's catch: attempt < maxRetries
RrMoreAttempts(a, maxRetries) == a < maxRetries

\* RrDelay growing by baseDelay per attempt
RrDelayLinear(baseDelay, a) == baseDelay * (a + 1)

\* const delay = baseDelay * 2 ** attempt
RrDelay(baseDelay, a) == baseDelay * 2^a

\* RrCaught with the first error kept
RrCaughtFirst(le, error) == IF le # NoError THEN le ELSE AsError(error)

\* lastError = error instanceof Error ? error : new Error(String(error))
RrCaught(le, error) == AsError(error)

\* throw lastError || new Error('HTTP request failed after retries')
RrExhaustedError(le) ==
    IF le.kind # "none" THEN le
    ELSE Thrown("Error", "", "HTTP request failed after retries", NoResponse)

\* the head of retryRequest's for loop with the counter at `a`: invoke
\* requestFn, or leave the loop and throw
RrLoopHead(a, le, maxRetries) ==
    /\ rrAttempt' = a
    /\ rrLastError' = le
    /\ IF RrLoopCondition(a, maxRetries)
       THEN /\ rrPc' = "calling"
            /\ rrCalls' = rrCalls + 1
            /\ UNCHANGED rrResult
       ELSE /\ rrPc' = "done"
            /\ rrResult' = FnRejected(RrExhaustedError(le))
            /\ UNCHANGED rrCalls

\* retryRequest up to its first await
RetryRequest(maxRetries, baseDelay) ==
    /\ rrPc = "idle"
    /\ rrMaxRetries' = maxRetries
    /\ rrBaseDelay' = baseDelay
    /\ RrLoopHead(0, NoError, maxRetries)
    /\ UNCHANGED <<rrWaits, rrThrown, now, onlineVars, httpVars, fnVars, jsonVars, pureVars>>

\* RequestFnResolves going round the loop on a response that is not ok
RequestFnResolvesRetriesNotOk(v) ==
    /\ rrPc = "calling"
    /\ IF v.ok \/ ~RrMoreAttempts(rrAttempt, rrMaxRetries)
       THEN /\ rrPc' = "done"
            /\ rrResult' = FnResolved(v)
            /\ UNCHANGED <<rrAttempt, rrLastError, rrCalls>>
       ELSE RrLoopHead(rrAttempt + 1, rrLastError, rrMaxRetries)
    /\ UNCHANGED <<rrMaxRetries, rrBaseDelay, rrWaits, rrThrown, now, onlineVars, httpVars, fnVars,
                   jsonVars, pureVars>>

\* the awaited requestFn() resolves: return its value
RequestFnResolves(v) ==
    /\ rrPc = "calling"
    /\ rrPc' = "done"
    /\ rrResult' = FnResolved(v)
    /\ UNCHANGED <<rrMaxRetries, rrBaseDelay, rrAttempt, rrLastError, rrCalls, rrWaits,
                   rrThrown, now, onlineVars, httpVars, fnVars, jsonVars, pureVars>>

\* the awaited requestFn() throws: wait and go round, or go round at once
\* when no attempt is left
RequestFnThrows(error) ==
    /\ rrPc = "calling"
    /\ rrThrown' = Append(rrThrown, error)
    /\ IF RrMoreAttempts(rrAttempt, rrMaxRetries)
       THEN /\ rrPc' = "waiting"
            /\ rrLastError' = RrCaught(rrLastError, error)
            /\ rrWaits' = Append(rrWaits, RrDelay(rrBaseDelay, rrAttempt))
            /\ UNCHANGED <<rrAttempt, rrCalls, rrResult>>
       ELSE /\ RrLoopHead(rrAttempt + 1, RrCaught(rrLastError, error), rrMaxRetries)
            /\ UNCHANGED rrWaits
    /\ UNCHANGED <<rrMaxRetries, rrBaseDelay, now, onlineVars, httpVars, fnVars, jsonVars, pureVars>>

\* the awaited timer fires: attempt++ and the loop goes round
RrDelayElapses ==
    /\ rrPc = "waiting"
    /\ RrLoopHead(rrAttempt + 1, rrLastError, rrMaxRetries)
    /\ UNCHANGED <<rrMaxRetries, rrBaseDelay, rrWaits, rrThrown, now, onlineVars, httpVars, fnVars,
                   jsonVars, pureVars>>

RetryStep ==
    \/ \E maxRetries \in RetriesValues, baseDelay \in {DefaultBaseDelay, CustomBaseDelay} :
          RetryRequest(maxRetries, baseDelay)
    \/ \E v \in RequestFnResponses(rrCalls) : RequestFnResolves(v)
    \/ \E error \in RequestFnErrors(rrCalls) : RequestFnThrows(error)
    \/ RrDelayElapses

---------------------------------------------------------------------------
(* The Result class *)

\* a string | null field
NullString == [isNull |-> TRUE, text |-> ""]
StringOf(text) == [isNull |-> FALSE, text |-> text]

\* new Result(_value, _error, _errorCause)
ResultOf(value, error, cause) == [value |-> value, error |-> error, errorCause |-> cause]

\* Result.success(value): new Result(value, null)
ResultSuccess(value) == ResultOf(value, NullString, NoError)

\* Result.fail(error, cause): new Result(null, error, cause)
ResultFail(error, cause) == ResultOf(Null, StringOf(error), cause)

\* get isSuccess: this._error === null
IsSuccess(r) == r.error.isNull

\* IsFailure decided by the truth of the error message
IsFailureTruthy(r) == ~r.error.isNull /\ r.error.text # ""

\* get isFailure: this._error !== null
IsFailure(r) == ~r.error.isNull

\* the values, error messages and causes a Result may be built from; the
\* cause NoError is no cause given
ResultValues == {JsValue("number", "42"), JsValue("string", "x"), Null, Undefined}
ResultErrors == {"", "boom", "Unknown error"}
ResultCauses ==
    { NoError, Thrown("Error", "", "socket hang up", NoResponse),
      Thrown("value", "", "why", NoResponse) }

\* a method call on a Result and how it ended: whether it threw and what, the
\* value or the Result it returned, the callback it was given, how often each
\* callback was invoked and with what
NoCallYet ==
    [ op |-> "none", threw |-> FALSE, thrown |-> NoError, value |-> Undefined,
      result |-> ResultOf(Undefined, NullString, NoError), fn |-> "none",
      fnCalls |-> 0, fnArg |-> Undefined, failureCalls |-> 0,
      failureArgs |-> [error |-> "", cause |-> NoError] ]

\* GetValue throwing only for a non-empty error message
GetValueTruthy(r) ==
    IF ~r.error.isNull /\ r.error.text # ""
    THEN [NoCallYet EXCEPT !.op = "value", !.threw = TRUE,
            !.thrown = Thrown("Error", "", "Cannot access value of failed result: "
                                           \o r.error.text, NoResponse)]
    ELSE [NoCallYet EXCEPT !.op = "value", !.value = r.value]

\* get value
GetValue(r) ==
    IF ~r.error.isNull
    THEN [NoCallYet EXCEPT !.op = "value", !.threw = TRUE,
            !.thrown = Thrown("Error", "", "Cannot access value of failed result: "
                                           \o r.error.text, NoResponse)]
    ELSE [NoCallYet EXCEPT !.op = "value", !.value = r.value]

\* get error
GetError(r) ==
    IF r.error.isNull
    THEN [NoCallYet EXCEPT !.op = "error", !.threw = TRUE,
            !.thrown = Thrown("Error", "", "Cannot access error of successful result",
                              NoResponse)]
    ELSE [NoCallYet EXCEPT !.op = "error", !.value = JsValue("string", r.error.text)]

\* the callbacks map and flatMap may be given: one that returns, one that
\* throws an Error, one that throws a string; for flatMap the one that returns
\* gives a success or a failure
MapFns == {"returns", "throwsError", "throwsValue"}
FlatMapFns == {"success", "failure", "throwsError", "throwsValue"}

FnThrows(fn) == fn \in {"throwsError", "throwsValue"}

FnThrown(fn) ==
    IF fn = "throwsError" THEN Thrown("Error", "", "bad input", NoResponse)
    ELSE Thrown("value", "", "oops", NoResponse)

\* what the callback that returns makes of the value
FnValue(v) == JsValue("string", v.text \o "!")

\* what flatMap's callback returns
FnResult(fn, v) ==
    IF fn = "success" THEN ResultSuccess(FnValue(v))
    ELSE ResultFail("inner failure", Thrown("Error", "", "inner", NoResponse))

\* this._error || 'Unknown error'
OrUnknown(error) ==
    IF error.isNull \/ error.text = "" THEN "Unknown error" ELSE error.text

\* Map with what fn throws let through
MapUncaught(r, fn) ==
    IF IsFailure(r)
    THEN [NoCallYet EXCEPT !.op = "map", !.fn = fn,
            !.result = ResultFail(OrUnknown(r.error), r.errorCause)]
    ELSE IF FnThrows(fn)
    THEN [NoCallYet EXCEPT !.op = "map", !.fn = fn, !.fnCalls = 1, !.fnArg = r.value,
            !.threw = TRUE, !.thrown = FnThrown(fn)]
    ELSE [NoCallYet EXCEPT !.op = "map", !.fn = fn, !.fnCalls = 1, !.fnArg = r.value,
            !.result = ResultSuccess(FnValue(r.value))]

\* map(fn)
Map(r, fn) ==
    IF IsFailure(r)
    THEN [NoCallYet EXCEPT !.op = "map", !.fn = fn,
            !.result = ResultFail(OrUnknown(r.error), r.errorCause)]
    ELSE IF FnThrows(fn)
    THEN [NoCallYet EXCEPT !.op = "map", !.fn = fn, !.fnCalls = 1, !.fnArg = r.value,
            !.result = ResultFail("Mapping failed: " \o FnThrown(fn).message,
                                  FnThrown(fn))]
    ELSE [NoCallYet EXCEPT !.op = "map", !.fn = fn, !.fnCalls = 1, !.fnArg = r.value,
            !.result = ResultSuccess(FnValue(r.value))]

\* flatMap(fn)
FlatMap(r, fn) ==
    IF IsFailure(r)
    THEN [NoCallYet EXCEPT !.op = "flatMap", !.fn = fn,
            !.result = ResultFail(OrUnknown(r.error), r.errorCause)]
    ELSE IF FnThrows(fn)
    THEN [NoCallYet EXCEPT !.op = "flatMap", !.fn = fn, !.fnCalls = 1,
            !.fnArg = r.value,
            !.result = ResultFail("FlatMap failed: " \o FnThrown(fn).message,
                                  FnThrown(fn))]
    ELSE [NoCallYet EXCEPT !.op = "flatMap", !.fn = fn, !.fnCalls = 1,
            !.fnArg = r.value, !.result = FnResult(fn, r.value)]

\* what match's callbacks return
OnSuccess(v) == JsValue("string", "ok: " \o v.text)
OnFailure(error, cause) == JsValue("string", "failed: " \o error \o " / " \o cause.message)

\* Match branching on the value instead of the error
MatchByValue(r) ==
    IF r.value # Null
    THEN [NoCallYet EXCEPT !.op = "match", !.fnCalls = 1, !.fnArg = r.value,
            !.value = OnSuccess(r.value)]
    ELSE [NoCallYet EXCEPT !.op = "match", !.failureCalls = 1,
            !.failureArgs = [error |-> r.error.text, cause |-> r.errorCause],
            !.value = OnFailure(r.error.text, r.errorCause)]

\* match(onSuccess, onFailure); fnCalls counts onSuccess, failureCalls onFailure
Match(r) ==
    IF IsSuccess(r)
    THEN [NoCallYet EXCEPT !.op = "match", !.fnCalls = 1, !.fnArg = r.value,
            !.value = OnSuccess(r.value)]
    ELSE [NoCallYet EXCEPT !.op = "match", !.failureCalls = 1,
            !.failureArgs = [error |-> r.error.text, cause |-> r.errorCause],
            !.value = OnFailure(r.error.text, r.errorCause)]

NotMade == [by |-> "none", value |-> Undefined, error |-> "", cause |-> NoError]

InitResult ==
    /\ rsMade = NotMade
    /\ rsObj = ResultOf(Undefined, NullString, NoError)
    /\ rsCall = NoCallYet

\* const r = Result.success(value)
NewSuccess(value) ==
    /\ rsMade' = [by |-> "success", value |-> value, error |-> "", cause |-> NoError]
    /\ rsObj' = ResultSuccess(value)
    /\ rsCall' = NoCallYet
    /\ UNCHANGED <<now, onlineVars, httpVars, fnVars, jsonVars, rrVars, urlVars>>

\* const r = Result.fail(error, cause)
NewFail(error, cause) ==
    /\ rsMade' = [by |-> "fail", value |-> Undefined, error |-> error, cause |-> cause]
    /\ rsObj' = ResultFail(error, cause)
    /\ rsCall' = NoCallYet
    /\ UNCHANGED <<now, onlineVars, httpVars, fnVars, jsonVars, rrVars, urlVars>>

\* a method call on r that ends as `call`; the fields of r are readonly
MethodCall(call) ==
    /\ rsMade.by # "none"
    /\ rsCall' = call
    /\ UNCHANGED <<rsMade, rsObj, now, onlineVars, httpVars, fnVars, jsonVars, rrVars, urlVars>>

ReadValue == MethodCall(GetValue(rsObj))
ReadError == MethodCall(GetError(rsObj))
CallMap(fn) == MethodCall(Map(rsObj, fn))
CallFlatMap(fn) == MethodCall(FlatMap(rsObj, fn))
CallMatch == MethodCall(Match(rsObj))

ResultStep ==
    \/ \E value \in ResultValues : NewSuccess(value)
    \/ \E error \in ResultErrors, cause \in ResultCauses : NewFail(error, cause)
    \/ ReadValue
    \/ ReadError
    \/ \E fn \in MapFns : CallMap(fn)
    \/ \E fn \in FlatMapFns : CallFlatMap(fn)
    \/ CallMatch

---------------------------------------------------------------------------
(* URL building *)

\* the most slashes a base URL ends in or a path begins with
MaxSlashes == 2

\* a params argument: absent, or a mapping given as its entries in order
NoParams == [given |-> FALSE, pairs |-> << >>]
ParamsOf(pairs) == [given |-> TRUE, pairs |-> pairs]
UrlParams ==
    { NoParams, ParamsOf(<< >>), ParamsOf(<< <<"page", "1">>, <<"limit", "10">> >>),
      ParamsOf(<< <<"q", "a b">> >>) }

\* application/x-www-form-urlencoded serialisation of a name or a value
FormEncode(text) ==
    CASE text = "a b" -> "a+b"
      [] OTHER -> text

\* new URLSearchParams(params).toString()
RECURSIVE SearchParams(_)
SearchParams(pairs) ==
    IF pairs = << >> THEN ""
    ELSE FormEncode(Head(pairs)[1]) \o "=" \o FormEncode(Head(pairs)[2])
         \o (IF Len(pairs) > 1 THEN "&" \o SearchParams(Tail(pairs)) ELSE "")

\* params && Object.keys(params).length > 0
HasParams(params) == params.given /\ Len(params.pairs) > 0

\* the url, with the query string when there are params
WithParams(url, params) ==
    IF HasParams(params) THEN url \o "?" \o SearchParams(params.pairs) ELSE url

\* Http.buildUrl(path, params) on an instance with properties p
HttpBuildUrl(p, path, params) == WithParams(ResolveUrl(p.baseUrl, path), params)

\* buildUrl(baseUrl, path, params)
BuildUrl(base, path, params) ==
    IF StartsWithScheme(path) THEN WithParams(PathText(path), params)
    ELSE IF BaseText(base) = ""
    THEN WithParams(IF path.lead > 0 THEN PathText(path) ELSE "/" \o PathText(path),
                    params)
    ELSE WithParams(StripTrailingSlash(base) \o "/" \o StripLeadingSlash(path), params)

\* the base URLs and the paths URLs are built from
UrlBases ==
    {NoBaseUrl} \cup { BaseUrl(o, t) : o \in {"https://api.example.com", "http://localhost:3000/api"},
                                       t \in 0..MaxSlashes }
UrlPaths ==
    { Path("", l, r) : l \in 0..MaxSlashes, r \in {"users", "users/1/"} }
        \cup { Path(sc, 0, "other.example.com/data") : sc \in {"http://", "https://"} }

UrlConfigs ==
    { [retries |-> 0, timeout |-> 0, validateStatus |-> "default", baseUrl |-> b,
       defaultHeaders |-> NoHeaders] : b \in UrlBases }

NoUrlCall == [called |-> FALSE, path |-> Path("", 0, ""), params |-> NoParams]

InitUrl ==
    /\ urlArgs = NoUrlCall
    /\ urlHttp = ""
    /\ urlFn = ""

\* http.buildUrl(path, params) and buildUrl(baseUrl, path, params) with the
\* instance's base URL
CallBuildUrl(path, params) ==
    /\ urlArgs' = [called |-> TRUE, path |-> path, params |-> params]
    /\ urlHttp' = HttpBuildUrl(props, path, params)
    /\ urlFn' = BuildUrl(props.baseUrl, path, params)
    /\ UNCHANGED <<now, onlineVars, httpVars, fnVars, jsonVars, rrVars, resVars>>

UrlStep == \E path \in UrlPaths, params \in UrlParams : CallBuildUrl(path, params)

InitPure == InitResult /\ InitUrl

---------------------------------------------------------------------------
(* The clock *)

\* the largest reading of the clock
MaxClock == 2

\* the readings Date.now() may give
Times == 0..MaxClock

InitClock == now = 0

\* time passes, or the system clock is set (forward or back): Date.now()
\* reads the wall clock, which is not monotonic
ClockMoves ==
    /\ now' \in Times \ {now}
    /\ UNCHANGED <<httpVars, fnVars, jsonVars, rrVars, pureVars, onlineVars>>

---------------------------------------------------------------------------
(* Http.isOnline *)

OnPending == [tag |-> "pending", value |-> FALSE, cause |-> NoError]
OnResolved(ok) == [tag |-> "resolved", value |-> ok, cause |-> NoError]
OnRejected(cause) == [tag |-> "rejected", value |-> FALSE, cause |-> cause]

\* the catch block of isOnline: every error is wrapped and thrown
OnCatch(error) ==
    OnRejected(Thrown("Error", "", "Network connectivity check failed: " \o error.message,
                      NoResponse))

InitOnline ==
    /\ onPc = "idle"
    /\ onTimer = "none"
    /\ onResult = OnPending

\* isOnline() up to its await: arm the timer, call fetch
IsOnline ==
    /\ onPc = "idle"
    /\ onPc' = "fetching"
    /\ onTimer' = "armed"
    /\ UNCHANGED <<onResult, httpVars, fnVars, jsonVars, rrVars, pureVars, now>>

\* the timer fires: controller.abort(), which aborts the fetch if it is
\* still in flight
OnTimerFires ==
    /\ onTimer = "armed"
    /\ onTimer' = "fired"
    /\ onPc' = IF onPc = "fetching" THEN "aborted" ELSE onPc
    /\ UNCHANGED <<onResult, httpVars, fnVars, jsonVars, rrVars, pureVars, now>>

\* the awaited fetch resolves: clearTimeout and return response.ok
OnFetchResolves(s) ==
    /\ onPc = "fetching"
    /\ onPc' = "done"
    /\ onTimer' = ClearTimer(onTimer)
    /\ onResult' = OnResolved(s >= 200 /\ s <= 299)
    /\ UNCHANGED <<httpVars, fnVars, jsonVars, rrVars, pureVars, now>>

\* the awaited fetch rejects with an error of its own: the catch throws, and
\* nothing clears the timer
OnFetchRejects(error) ==
    /\ onPc = "fetching"
    /\ onPc' = "done"
    /\ onResult' = OnCatch(error)
    /\ UNCHANGED <<onTimer, httpVars, fnVars, jsonVars, rrVars, pureVars, now>>

\* the aborted fetch rejects with an AbortError: the catch throws
OnCatchAbort ==
    /\ onPc = "aborted"
    /\ onPc' = "done"
    /\ onResult' = OnCatch(AbortError)
    /\ UNCHANGED <<onTimer, httpVars, fnVars, jsonVars, rrVars, pureVars, now>>

OnlineStep ==
    \/ IsOnline
    \/ OnTimerFires
    \/ \E s \in Statuses : OnFetchResolves(s)
    \/ \E error \in FetchErrors : OnFetchRejects(error)
    \/ OnCatchAbort

---------------------------------------------------------------------------
(* Specifications *)

\* one Http.request execution on an instance built by Http.create
Init == InitHttp /\ InitFn /\ InitJson /\ InitRetry /\ InitPure /\ InitClock /\ InitOnline

Next == HttpStep(1)

Spec == Init /\ [][Next]_vars

\* one Http.request execution seen at the transport: instances that differ in
\* timeout, baseUrl and defaultHeaders, descriptors that differ in body,
\* timeout, url and headers
WireResponses == { r \in AxiosResponses : r.status \in {200, 404} /\ r.statusText = "text" }

WireErrors ==
    { Thrown("AxiosError", "ENOTFOUND", "getaddrinfo ENOTFOUND api.example.com", NoResponse),
      Thrown("Error", "", "socket hang up", NoResponse) }

WireStep(e) ==
    \/ \E cfg \in WireDescriptors : Request(e, cfg)
    \/ \E r \in WireResponses : TransportReturns(e, r)
    \/ \E error \in WireErrors : TransportThrows(e, error)
    \/ DelayElapses(e)
    \/ ReadBody(e)

InitWire ==
    /\ props \in { Create(c) : c \in WireConfigs }
    /\ InitExecs
    /\ InitFn
    /\ InitJson
    /\ InitRetry
    /\ InitPure
    /\ InitClock
    /\ InitOnline

NextWire == WireStep(1)

SpecWire == InitWire /\ [][NextWire]_vars

\* one Http.request execution over responses that differ in content type and
\* body, beside calls of parseJson
JsonResponses ==
    { r \in AllAxiosResponses : r.status \in {200, 404} /\ r.statusText = "text" }

JsonConfigs == { c \in HttpConfigs : c.retries = 0 /\ c.timeout = 0 }

JsonDescriptors ==
    { d \in Descriptors : d.body = "none" /\ ~d.signal /\ d.timeout = 0 }

JsonStep(e) ==
    \/ \E cfg \in JsonDescriptors : Request(e, cfg)
    \/ \E r \in JsonResponses : TransportReturns(e, r)
    \/ ReadBody(e)

InitJsonSpec ==
    /\ props \in { Create(c) : c \in JsonConfigs }
    /\ InitExecs
    /\ InitFn
    /\ InitJson
    /\ InitRetry
    /\ InitPure
    /\ InitClock
    /\ InitOnline

NextJson ==
    \/ JsonStep(1)
    \/ \E h \in JsonArgs : CallParseJson(h)

SpecJson == InitJsonSpec /\ [][NextJson]_vars

\* executions started concurrently on one instance, each with a URL and an
\* Authorization header of its own, against a transport that answers every
\* call with the URL it was called with
ConcConfigs ==
    { c \in AllHttpConfigs : /\ c.retries \in {1, 2} /\ c.timeout = 0
                              /\ c.validateStatus = "default"
                              /\ c.defaultHeaders = NoHeaders
                              /\ c.baseUrl.trail = 0 }

\* the token of execution e
Token(e) == ToString(e)

ConcDescriptor(e) ==
    [ body |-> "none", signal |-> FALSE, timeout |-> 0,
      url |-> Path("", 1, "items/" \o Token(e)),
      headers |-> << Header("Authorization", "Bearer " \o Token(e)) >> ]

\* the transport's answer to a call: the body echoes the URL called
EchoResponse(call, status) ==
    [ status |-> status, statusText |-> "text", contentType |-> "text/plain",
      body |-> call.url ]

\* the transport's failure of a call: the message names the URL called
EchoError(call, kind) == Thrown(kind, "", "failed " \o call.url, NoResponse)

ConcStep(e) ==
    \/ Request(e, ConcDescriptor(e))
    \/ \E status \in {200, 500} : TransportReturns(e, EchoResponse(sent[e], status))
    \/ \E kind \in {"Error", "AxiosError"} : TransportThrows(e, EchoError(sent[e], kind))
    \/ DelayElapses(e)
    \/ ReadBody(e)

InitConc ==
    /\ props \in { Create(c) : c \in ConcConfigs }
    /\ InitExecs
    /\ InitFn
    /\ InitJson
    /\ InitRetry
    /\ InitPure
    /\ InitClock
    /\ InitOnline

NextConc == \E e \in Execs : ConcStep(e)

SpecConc == InitConc /\ [][NextConc]_vars

\* the transport invocation in flight ends: it returns, throws, times out or
\* is aborted
TransportEnds(e) ==
    \/ \E r \in AxiosResponses : TransportReturns(e, r)
    \/ \E error \in TransportErrors : TransportThrows(e, error)
    \/ TransportTimesOut(e)
    \/ TransportAborted(e)

\* the same execution where every transport invocation ends, every timer set
\* by delay() fires and every body read completes, on instances that differ in
\* retries
LiveConfigs ==
    { c \in HttpConfigs : c.timeout = 0 /\ c.validateStatus = "default" }

InitLive ==
    /\ props \in { Create(c) : c \in LiveConfigs }
    /\ InitExecs
    /\ InitFn
    /\ InitJson
    /\ InitRetry
    /\ InitPure
    /\ InitClock
    /\ InitOnline

SpecLive ==
    /\ InitLive
    /\ [][Next]_vars
    /\ WF_vars(TransportEnds(1))
    /\ WF_vars(DelayElapses(1))
    /\ WF_vars(ReadBody(1))

\* one call of the standalone request function
InitStandalone ==
    /\ InitHttp
    /\ props = Create([retries |-> 0, timeout |-> 0, validateStatus |-> "default",
                        baseUrl |-> NoBaseUrl, defaultHeaders |-> NoHeaders])
    /\ InitFn
    /\ InitJson
    /\ InitRetry
    /\ InitPure
    /\ InitClock
    /\ InitOnline

NextFn == FnStep

SpecFn == InitStandalone /\ [][NextFn]_vars

\* one call of retryRequest
NextRetry == RetryStep

SpecRetry == InitStandalone /\ [][NextRetry]_vars

\* Results built and used
NextResult == ResultStep

SpecResult == InitStandalone /\ [][NextResult]_vars

\* URLs built by an instance made with any base URL, and by buildUrl with the
\* same base URL
InitUrlSpec ==
    /\ props \in { Create(c) : c \in UrlConfigs }
    /\ InitExecs
    /\ InitFn
    /\ InitJson
    /\ InitRetry
    /\ InitPure
    /\ InitClock
    /\ InitOnline

NextUrl == UrlStep

SpecUrl == InitUrlSpec /\ [][NextUrl]_vars

\* one call, of Http.request on an instance without retries and with any
\* validateStatus, or of request(), while the clock moves
ResponseConfigs == { c \in HttpConfigs : c.retries = 0 /\ c.timeout = 0 }

InitResponse ==
    /\ props \in { Create(c) : c \in ResponseConfigs }
    /\ InitExecs
    /\ InitFn
    /\ InitJson
    /\ InitRetry
    /\ InitPure
    /\ InitClock
    /\ InitOnline

NextResponse ==
    \/ ClockMoves
    \/ fnPc = "idle" /\ HttpStep(1)
    \/ pc[1] = "idle" /\ FnStep

SpecResponse == InitResponse /\ [][NextResponse]_vars

\* retryRequest(() => request(cfg), maxRetries) with a cfg that has a timeout
RetryFnDescriptors ==
    { d \in Descriptors : d.timeout # 0 /\ ~d.signal /\ d.body = "none" }

\* an invocation of request() has returned to retryRequest, which did not
\* return: the next invocation starts from fresh locals
FnActivationEnds ==
    /\ fnPc = "done"
    /\ rrPc = "waiting"
    /\ fnPc' = "idle"
    /\ fnConfig' = NoConfig
    /\ fnTimer' = "none"
    /\ fnAborted' = FALSE
    /\ fnCallerAborted' = FALSE
    /\ fnResponse' = NoValue
    /\ fnResult' = FnPending
    /\ fnStartTime' = 0
    /\ fnDuration' = 0
    /\ UNCHANGED <<httpVars, jsonVars, rrVars, pureVars, now, onlineVars>>

NextRetryFn ==
    \/ \E maxRetries \in RetriesValues : RetryRequest(maxRetries, DefaultBaseDelay)
    \/ rrPc = "calling" /\ \E cfg \in RetryFnDescriptors : FnRequest(cfg)
    \/ rrPc = "calling" /\ FnTimerFires
    \/ rrPc = "calling" /\ \E s \in Statuses : FnFetchResolves(s)
    \/ rrPc = "calling" /\ \E error \in FetchErrors : FnFetchRejects(error)
    \/ rrPc = "calling" /\ FnTextResolves
    \/ rrPc = "calling" /\ FnCatchAbort
    \/ fnPc = "done" /\ fnResult.tag = "resolved" /\ RequestFnResolves(fnResult.value)
    \/ fnPc = "done" /\ fnResult.tag = "rejected" /\ RequestFnThrows(fnResult.cause)
    \/ FnActivationEnds
    \/ fnPc = "idle" /\ RrDelayElapses

SpecRetryFn == InitStandalone /\ [][NextRetryFn]_vars

\* one call of request() and one call of isOnline()
NextTimers == FnStep \/ OnlineStep

SpecTimers == InitStandalone /\ [][NextTimers]_vars

---------------------------------------------------------------------------
(* Properties of Http.request *)

Done(e) == pc[e] = "done"

\* how the latest finished transport invocation of execution e ended
LastOutcome(e) == outcomes[e][Len(outcomes[e])]

Accepts(status) == ValidateStatus(props.validateStatus, status) = "accept"
Rejects(status) == ValidateStatus(props.validateStatus, status) = "reject"

\* C1: once the transport has returned a response whose status validateStatus
\* rejects, no backoff wait and no further transport invocation follows it (a
\* rejected first response leaves exactly one invocation and no wait), and the
\* request returns the failure "HTTP <status>: <statusText>".
RejectedStatusNeverRetried ==
    \A e \in Execs :
        (outcomes[e] # << >> /\ LastOutcome(e).kind = "response"
                             /\ Rejects(LastOutcome(e).status))
        => /\ pc[e] \in {"reading", "done"}
           /\ calls[e] = Len(outcomes[e])
           /\ Len(waits[e]) = Len(outcomes[e]) - 1
           /\ Done(e) => /\ result[e].tag = "failure"
                         /\ result[e].error = "HTTP " \o ToString(LastOutcome(e).status)
                                              \o ": " \o response[e].statusText

\* C2: a transport-level throw (network error or timeout) that leaves attempts
\* unused is retried, so that N >= 1 throws followed by an accepted response,
\* with retries >= N, end in success after exactly N+1 invocations.
ThrowsRetriedUntilSuccess ==
    \A e \in Execs :
        /\ (outcomes[e] # << >> /\ LastOutcome(e).kind \in {"throw", "timeout"}
                                /\ Len(outcomes[e]) <= props.retries)
           => ~Done(e)
        /\ (Done(e) /\ Len(outcomes[e]) >= 2
                    /\ LastOutcome(e).kind = "response" /\ Accepts(LastOutcome(e).status)
                    /\ \A i \in 1..(Len(outcomes[e]) - 1) :
                           outcomes[e][i].kind \in {"throw", "timeout"})
           => /\ result[e].tag = "success"
              /\ calls[e] = Len(outcomes[e])

\* C3: with retries = R and a transport that throws on every invocation, the
\* request returns a failure after exactly R+1 transport invocations.
AlwaysThrowingTakesAllAttempts ==
    \A e \in Execs :
        (Done(e) /\ ~StringifyThrows(config[e])
                 /\ \A i \in 1..Len(outcomes[e]) : outcomes[e][i].kind # "response")
        => /\ result[e].tag = "failure"
           /\ calls[e] = props.retries + 1

SuccessIffAcceptedResponse ==
    \A e \in Execs :
        Done(e) =>
            /\ result[e].tag = "success"
               <=> (outcomes[e] # << >> /\ LastOutcome(e).kind = "response"
                                        /\ Accepts(LastOutcome(e).status))
            /\ result[e].tag = "success"
               => result[e].value.status = LastOutcome(e).status

\* the failure of a finished execution came from a value the transport threw
FailedOnThrow(e) ==
    /\ Done(e)
    /\ outcomes[e] # << >>
    /\ LastOutcome(e).kind # "response"

\* C6 as claimed: every thrown value with an error code and no response gives
\* the failure "Network error <code>: <message>".
EveryCodedThrowIsNetworkError ==
    \A e \in Execs :
        (FailedOnThrow(e) /\ result[e].cause.code # ""
                          /\ ~result[e].cause.response.present)
        => /\ result[e].tag = "failure"
           /\ result[e].error = "Network error " \o result[e].cause.code \o ": "
                                \o result[e].cause.message

\* C6, amended: every axios error (an Error with isAxiosError) thrown by the
\* transport with an error code and no response gives the failure
\* "Network error <code>: <message>".
AxiosCodedThrowIsNetworkError ==
    \A e \in Execs :
        (FailedOnThrow(e) /\ IsAxiosError(result[e].cause)
                          /\ result[e].cause.code # ""
                          /\ ~result[e].cause.response.present)
        => /\ result[e].tag = "failure"
           /\ result[e].error = "Network error " \o result[e].cause.code \o ": "
                                \o result[e].cause.message

\* C6 witness: an axios ENOTFOUND error was thrown and the request is done.
AxiosCodedThrowWitness ==
    \E e \in Execs :
        /\ FailedOnThrow(e)
        /\ IsAxiosError(result[e].cause)
        /\ result[e].cause.code = "ENOTFOUND"

\* C7: every thrown value that carries an HTTP response gives the failure
\* "HTTP <status>: <statusText, or the error's message when statusText is empty>",
\* also when it carries an error code as well.
ThrowWithResponseIsHttpError ==
    \A e \in Execs :
        (FailedOnThrow(e) /\ result[e].cause.response.present)
        => /\ result[e].tag = "failure"
           /\ result[e].error =
                "HTTP " \o ToString(result[e].cause.response.status) \o ": " \o
                (IF result[e].cause.response.statusText # ""
                 THEN result[e].cause.response.statusText
                 ELSE result[e].cause.message)

\* C7 witness: the thrown value carried a response with an empty statusText and
\* an error code too.
ThrowWithResponseWitness ==
    \E e \in Execs :
        /\ FailedOnThrow(e)
        /\ result[e].cause.response.present
        /\ result[e].cause.response.statusText = ""
        /\ result[e].cause.code # ""

BackoffOnlyAfterThrow ==
    \A e \in Execs :
        pc[e] = "delaying" => LastOutcome(e).kind \in {"throw", "timeout", "abort"}

NothingAfterOutcome ==
    \A e \in Execs :
        Done(e) => /\ pc'[e] = "done"
                   /\ calls'[e] = calls[e]
                   /\ waits'[e] = waits[e]
                   /\ result'[e] = result[e]

ExecutionStateMachine == [] BackoffOnlyAfterThrow /\ [][NothingAfterOutcome]_vars

\* C11: every started execution eventually returns an outcome; while it runs
\* the attempt counter stays within 0..retries, and every backoff wait that ends
\* is followed at once by another transport invocation with the counter one
\* higher.
AttemptBounded ==
    \A e \in Execs :
        pc[e] \in {"attempting", "delaying"}
        => (attempt[e] >= 0 /\ attempt[e] <= props.retries)

WaitThenAttempt ==
    \A e \in Execs :
        (pc[e] = "delaying" /\ pc'[e] # "delaying")
        => /\ pc'[e] = "attempting"
           /\ attempt'[e] = attempt[e] + 1
           /\ calls'[e] = calls[e] + 1

EveryExecutionReturns ==
    /\ [] AttemptBounded
    /\ [][WaitThenAttempt]_vars
    /\ \A e \in Execs : (pc[e] # "idle") ~> Done(e)

\* C11 witness: an execution that waited, attempted again and returned.
EveryExecutionReturnsWitness ==
    \E e \in Execs :
        /\ Done(e)
        /\ Len(waits[e]) >= 1
        /\ calls[e] = Len(waits[e]) + 1
        /\ attempt[e] = Len(waits[e])

\* C13: no step of an Http.request execution changes the instance's
\* configuration: baseUrl, defaultHeaders (keys and values), timeout, retries
\* and validateStatus stay as Http.create left them.
ConfigurationUnchanged == [][props' = props]_vars

\* C13 witness: a finished execution with a structured body whose request
\* headers got Content-Type forced in, on an instance whose default headers
\* have no Content-Type.
ConfigurationUnchangedWitness ==
    \E e \in Execs :
        /\ Done(e)
        /\ Structured(config[e])
        /\ calls[e] > 0
        /\ HasKey(requestConfig[e].headers, "Content-Type")
        /\ ~HasKey(props.defaultHeaders, "Content-Type")

\* C14: the wait after failed attempt k is the first wait times 2^k, so the
\* waits double from one attempt to the next.
ExponentialBackoff ==
    \A e \in Execs :
        \A k \in 1..Len(waits[e]) : waits[e][k] = waits[e][1] * 2^(k - 1)

\* C15: the transport is called with the descriptor's own timeout when it has
\* one, and with the instance's timeout only when it has none.
DescriptorTimeoutApplied ==
    \A e \in Execs :
        calls[e] > 0
        => sent[e].timeout = (IF config[e].timeout # 0 THEN config[e].timeout
                                                        ELSE props.timeout)

\* C16: a request whose structured body cannot be serialized returns a failure
\* at once, with no transport invocation and no backoff wait, whatever retries
\* is.
UnserializableBodyFailsAtOnce ==
    \A e \in Execs :
        (pc[e] # "idle" /\ config[e].body = "unserializable")
        => /\ Done(e)
           /\ result[e].tag = "failure"
           /\ result[e].error = "HTTP request failed: " \o StringifyError.message
           /\ calls[e] = 0
           /\ waits[e] = << >>
           /\ outcomes[e] = << >>

\* C16 witness: such a request on an instance configured with retries.
UnserializableBodyWitness ==
    \E e \in Execs :
        /\ Done(e)
        /\ config[e].body = "unserializable"
        /\ props.retries = MaxRetries

\* the URL execution e asked for
OwnUrl(e) == ResolveUrl(props.baseUrl, ConcDescriptor(e).url)

\* everything the model keeps for execution e
ExecState(e) ==
    <<pc[e], config[e], requestConfig[e], sent[e], attempt[e], lastError[e],
      response[e], result[e], calls[e], waits[e], outcomes[e]>>

\* every transport call of e carries e's own URL and header, and what e holds
\* and returns (response, error, attempt counter) stems from its own calls
OwnResult ==
    \A e \in Execs :
        /\ calls[e] > 0
           => /\ sent[e].url = OwnUrl(e)
              /\ sent[e].headers["authorization"] = "Bearer " \o Token(e)
        /\ response[e] # NoValue
           => (response[e].url = OwnUrl(e) /\ response[e].body = OwnUrl(e))
        /\ lastError[e] # NoError => lastError[e].message = "failed " \o OwnUrl(e)
        /\ attempt[e] = Len(waits[e]) - (IF pc[e] = "delaying" THEN 1 ELSE 0)
        /\ pc[e] # "idle" => calls[e] = attempt[e] + 1
        /\ result[e].tag = "success"
           => (result[e].value.url = OwnUrl(e) /\ result[e].value.body = OwnUrl(e))
        /\ result[e].tag = "failure"
           => \/ result[e].cause.message = "failed " \o OwnUrl(e)
              \/ /\ result[e].error = "HTTP 500: Internal Server Error"
                 /\ response[e].body = OwnUrl(e)
        /\ Done(e) <=> result[e] # Pending

\* a step of one execution leaves every other execution as it was
OthersUntouched ==
    \E e \in Execs : \A o \in Execs \ {e} : ExecState(o)' = ExecState(o)

JsonTexts == {"{\"data\": \"test\"}", "{\"data\":\"test\"}", "\"hello\"", "null"}

\* C17: a response with an accepted status gives a success whatever its content
\* type and body; on a success the parsed body is present exactly when the
\* content-type header contains application/json and the body text is valid
\* JSON; parseJson never throws, returns null when the content type is not JSON
\* or the body is not valid JSON, and the parsed value otherwise.
ParsedIffJson ==
    /\ \A e \in Execs :
          (Done(e) /\ response[e] # NoValue /\ Accepts(response[e].status))
          => /\ result[e].tag = "success"
             /\ result[e].value = response[e]
    /\ \A e \in Execs :
          result[e].tag = "success"
          => (result[e].parsed # Undefined
              <=> (IncludesJson(result[e].value.contentType)
                   /\ result[e].value.body \in JsonTexts))
    /\ ~jsonResult.threw
    /\ jsonArg # NoValue
       => jsonResult.value =
            (IF IncludesJson(jsonArg.contentType) /\ jsonArg.body \in JsonTexts
             THEN JsonParse(jsonArg.body).value ELSE Null)

\* C17 witness: a success whose body came with a JSON content type and is not
\* valid JSON, and a parseJson call on such a response.
ParsedIffJsonWitness ==
    /\ \E e \in Execs :
          /\ result[e].tag = "success"
          /\ IncludesJson(result[e].value.contentType)
          /\ result[e].value.body = "invalid json {"
          /\ result[e].parsed = Undefined
    /\ IncludesJson(jsonArg.contentType)
    /\ jsonArg.body = "invalid json {"
    /\ jsonResult.value = Null

\* the value of header n after the defaults are overridden by the descriptor
Overridden(defaults, headers, n) ==
    IF AxiosHeader(headers, n) # "" THEN AxiosHeader(headers, n)
    ELSE AxiosHeader(defaults, n)

\* C18: the headers sent are the default headers overridden header by header
\* by the descriptor's; exactly when the body is defined and no string the body
\* sent is its JSON text and the Content-Type sent is application/json whatever
\* the caller supplied; a string body is sent as it is.
HeadersAndBodySent ==
    \A e \in Execs :
        calls[e] > 0 =>
            /\ \A n \in HeaderNames :
                  \/ n = "content-type" /\ Structured(config[e])
                  \/ sent[e].headers[n] =
                        Overridden(props.defaultHeaders, config[e].headers, n)
            /\ Structured(config[e])
               => /\ sent[e].body = BodyOf("{\"test\":\"data\"}")
                  /\ sent[e].headers["content-type"] = "application/json"
            /\ config[e].body = "string" => sent[e].body = BodyOf("raw string data")
            /\ config[e].body = "none" => sent[e].body = NoBody

---------------------------------------------------------------------------
(* Properties of the standalone request function *)

\* C9: with a timeout and a caller-supplied signal, the call in flight is
\* aborted as soon as the first of the two fires: once the timer has fired or the
\* caller's signal has fired, no fetch or body read is still in flight.
AbortedOnFirstEvent ==
    (fnTimer = "fired" \/ fnCallerAborted) => fnPc \notin {"fetching", "reading"}

---------------------------------------------------------------------------
(* Properties of retryRequest *)

\* every requestFn invocation so far threw and retryRequest has settled
AllThrew == rrPc = "done" /\ Len(rrThrown) = rrCalls

\* C19 as claimed: when requestFn throws on every invocation, retryRequest
\* rejects with the very value the last invocation threw, after exactly
\* maxRetries + 1 invocations.
RejectsWithLastThrown ==
    AllThrew
    => /\ rrResult.tag = "rejected"
       /\ rrCalls = rrMaxRetries + 1
       /\ rrThrown # << >> => rrResult.cause = rrThrown[Len(rrThrown)]

\* C19, amended: when requestFn throws on every invocation, retryRequest
\* rejects after exactly maxRetries + 1 invocations, with what the last
\* invocation threw when that is an Error and else with a new Error whose
\* message is String(value).
RejectsWithLastError ==
    AllThrew
    => /\ rrResult.tag = "rejected"
       /\ rrCalls = rrMaxRetries + 1
       /\ rrThrown # << >>
          => LET last == rrThrown[Len(rrThrown)] IN
             /\ IsError(last) => rrResult.cause = last
             /\ ~IsError(last)
                => rrResult.cause = Thrown("Error", "", last.message, NoResponse)

\* C19 witness: maxRetries = 2, three invocations that threw three different
\* Errors, and the rejection.
RejectsWithLastErrorWitness ==
    /\ AllThrew
    /\ rrMaxRetries = 2
    /\ rrCalls = 3
    /\ rrThrown[3].message = "Error 3"
    /\ rrThrown[1].message = "Error 1"
    /\ rrResult.tag = "rejected"

\* once retryRequest has settled nothing more happens
RrNothingAfterSettled ==
    rrPc = "done" => (rrPc' = "done" /\ rrCalls' = rrCalls /\ rrResult' = rrResult)

\* a settled retryRequest resolved with the value of its latest invocation, the
\* one after all the throws, or rejected with no attempt left
RrResolvedWithLatest ==
    /\ rrResult.tag = "resolved"
       => /\ rrCalls = Len(rrThrown) + 1
          /\ rrResult.value \in RequestFnResponses(rrCalls)
    /\ rrResult.tag = "rejected" => Len(rrThrown) = rrCalls /\ rrCalls >= rrMaxRetries + 1
    /\ (rrPc = "done") <=> (rrResult # FnPending)

RECURSIVE SumOf(_)
SumOf(seq) == IF seq = << >> THEN 0 ELSE Head(seq) + SumOf(Tail(seq))

\* C21: the wait after failed attempt k (from 0) is baseDelay * 2^k, there is no
\* wait after the final failed attempt, and with maxRetries = R >= 0 and every
\* attempt failing the waits add up to exactly baseDelay * (2^R - 1).
RetryWaitsDouble ==
    /\ \A k \in 1..Len(rrWaits) : rrWaits[k] = rrBaseDelay * 2^(k - 1)
    /\ Len(rrWaits) <= Len(rrThrown)
    /\ (AllThrew /\ rrMaxRetries >= 0)
       => /\ Len(rrWaits) = rrMaxRetries
          /\ Len(rrThrown) = rrMaxRetries + 1
          /\ SumOf(rrWaits) = rrBaseDelay * (2^rrMaxRetries - 1)

\* C21 witness: baseDelay 50, maxRetries 2, three failed attempts and the two
\* waits 50 and 100.
RetryWaitsDoubleWitness ==
    /\ AllThrew
    /\ rrBaseDelay = CustomBaseDelay
    /\ rrMaxRetries = 2
    /\ rrWaits = <<CustomBaseDelay, 2 * CustomBaseDelay>>
    /\ rrResult.tag = "rejected"

---------------------------------------------------------------------------
(* Properties of the standalone request function, continued *)

ExactlyOneClass ==
    /\ rsMade.by # "none" => IsSuccess(rsObj) # IsFailure(rsObj)
    /\ rsMade.by = "success" => IsSuccess(rsObj) /\ ~IsFailure(rsObj)
    /\ rsMade.by = "fail" => IsFailure(rsObj) /\ ~IsSuccess(rsObj)
    /\ (rsCall.op \in {"map", "flatMap"} /\ ~rsCall.threw)
       => IsSuccess(rsCall.result) # IsFailure(rsCall.result)
    /\ (rsMade.by # "none" /\ rsCall.op # "none")
       => rsObj = IF rsMade.by = "success" THEN ResultSuccess(rsMade.value)
                  ELSE ResultFail(rsMade.error, rsMade.cause)

ExactlyOneClassWitness ==
    /\ rsMade.by = "fail"
    /\ rsMade.error = ""
    /\ rsCall.op = "match"
    /\ IsFailure(rsObj)

\* C24: match invokes exactly one of its two callbacks, once: on a success
\* onSuccess with the value, on a failure onFailure with the error message and
\* the cause; and it returns what that callback returned.
ExactlyOneBranch ==
    rsCall.op = "match"
    => /\ ~rsCall.threw
       /\ rsCall.fnCalls + rsCall.failureCalls = 1
       /\ rsMade.by = "success"
          => /\ rsCall.fnCalls = 1
             /\ rsCall.fnArg = rsMade.value
             /\ rsCall.value = OnSuccess(rsMade.value)
       /\ rsMade.by = "fail"
          => /\ rsCall.failureCalls = 1
             /\ rsCall.failureArgs = [error |-> rsMade.error, cause |-> rsMade.cause]
             /\ rsCall.value = OnFailure(rsMade.error, rsMade.cause)

ExactlyOneBranchWitness ==
    /\ rsCall.op = "match"
    /\ rsMade.by = "fail"
    /\ rsMade.cause.kind = "Error"
    /\ rsCall.failureCalls = 1
    /\ rsCall.fnCalls = 0

\* C25: map and flatMap on a failure return a failure with the same error
\* message and the same cause, and do not invoke fn, whatever the message and
\* the cause.
FailurePassesThrough ==
    (rsCall.op \in {"map", "flatMap"} /\ rsMade.by = "fail")
    => /\ ~rsCall.threw
       /\ rsCall.fnCalls = 0
       /\ IsFailure(rsCall.result)
       /\ rsCall.result.error = StringOf(rsMade.error)
       /\ rsCall.result.errorCause = rsMade.cause

GettersGuarded ==
    /\ (rsCall.op = "value" /\ rsMade.by = "fail") => rsCall.threw
    /\ (rsCall.op = "error" /\ rsMade.by = "success") => rsCall.threw
    /\ (rsCall.op = "value" /\ rsMade.by = "success")
       => ~rsCall.threw /\ rsCall.value = rsMade.value
    /\ (rsCall.op = "error" /\ rsMade.by = "fail")
       => ~rsCall.threw /\ rsCall.value = JsValue("string", rsMade.error)

GettersGuardedWitness ==
    /\ rsCall.op = "value"
    /\ rsMade.by = "fail"
    /\ rsMade.error = ""
    /\ rsCall.threw
    /\ rsCall.thrown.message = "Cannot access value of failed result: "

\* the query suffix the latest call's params ask for
QuerySuffix ==
    IF urlArgs.params.given /\ urlArgs.params.pairs # << >>
    THEN "?" \o SearchParams(urlArgs.params.pairs)
    ELSE ""

\* C28: for a path that starts with http:// or https://, Http.buildUrl and
\* buildUrl return the path as it is, whatever the base URL, followed by
\* ?key=value&... when a non-empty mapping is given and by nothing when the
\* mapping is absent or empty.
AbsolutePathIgnoresBase ==
    (urlArgs.called /\ urlArgs.path.scheme \in {"http://", "https://"})
    => /\ urlHttp = PathText(urlArgs.path) \o QuerySuffix
       /\ urlFn = PathText(urlArgs.path) \o QuerySuffix
       /\ urlArgs.params = ParamsOf(<< <<"page", "1">>, <<"limit", "10">> >>)
          => urlFn = PathText(urlArgs.path) \o "?page=1&limit=10"
       /\ urlArgs.params \in {NoParams, ParamsOf(<< >>)}
          => urlFn = PathText(urlArgs.path)

AbsolutePathIgnoresBaseWitness ==
    /\ urlArgs.called
    /\ props.baseUrl = BaseUrl("https://api.example.com", 1)
    /\ urlArgs.path = Path("https://", 0, "other.example.com/data")
    /\ urlHttp = "https://other.example.com/data?page=1&limit=10"
    /\ urlFn = urlHttp

\* C29: for a base URL that ends in "/" and a relative path that starts with
\* "/", Http.buildUrl and buildUrl return the base and the path with exactly
\* one "/" between them.
OneSlashAtJoin ==
    (/\ urlArgs.called
     /\ props.baseUrl.trail >= 1
     /\ urlArgs.path.scheme = ""
     /\ urlArgs.path.lead >= 1)
    => /\ urlHttp = props.baseUrl.origin \o "/" \o urlArgs.path.rest \o QuerySuffix
       /\ urlFn = props.baseUrl.origin \o "/" \o urlArgs.path.rest \o QuerySuffix

\* C30: without a base URL and for a relative path, the URL built begins with
\* exactly one "/"; and Http.buildUrl on an instance without a base URL and
\* buildUrl('', path, params) return the same string for every path and
\* mapping.
PathOnlyUrlAgrees ==
    (urlArgs.called /\ BaseText(props.baseUrl) = "")
    => /\ urlHttp = urlFn
       /\ urlArgs.path.scheme = ""
          => /\ urlFn = "/" \o urlArgs.path.rest \o QuerySuffix
             /\ urlHttp = "/" \o urlArgs.path.rest \o QuerySuffix

\* 200 <= status <= 299
InSuccessRange(status) == status >= 200 /\ status <= 299

\* C31: the ok field of the response Http.request returns, and of the response
\* request() resolves with, holds exactly when 200 <= status <= 299, whatever
\* validateStatus is configured: a 302 accepted by a validator of its own is
\* returned as a success whose response has ok false.
OkIffSuccessRange ==
    /\ \A e \in Execs :
          /\ response[e] # NoValue => (response[e].ok <=> InSuccessRange(response[e].status))
          /\ result[e].tag = "success"
             => /\ result[e].value = response[e]
                /\ result[e].value.ok <=> InSuccessRange(result[e].value.status)
    /\ fnResult.tag = "resolved"
       => (fnResult.value.ok <=> InSuccessRange(fnResult.value.status))

OkIffSuccessRangeWitness ==
    /\ props.validateStatus = "lt400"
    /\ result[1].tag = "success"
    /\ result[1].value.status = 302
    /\ ~result[1].value.ok

\* C32: the duration of every response Http.request returns and request()
\* resolves with is not negative, also when the clock reads less at
\* completion than it read at the start.
DurationNotNegative ==
    /\ \A e \in Execs : result[e].tag = "success" => duration[e] >= 0
    /\ fnResult.tag = "resolved" => fnDuration >= 0

\* C33: a returned Http.request whose body serializes has invoked the transport
\* at least once and at most retries + 1 times, whatever retries the instance
\* was created with; and a settled retryRequest has invoked requestFn at least
\* once and at most maxRetries + 1 times.
TransportAttempted ==
    /\ \A e \in Execs :
          (pc[e] = "done" /\ ~StringifyThrows(config[e]))
          => /\ calls[e] >= 1
             /\ calls[e] <= props.retries + 1
    /\ rrPc = "done"
       => /\ rrCalls >= 1
          /\ rrCalls <= rrMaxRetries + 1

\* C34: retryRequest invokes requestFn again only after an invocation that
\* threw: an invocation that resolves, with a response of any status, ends the
\* call with that response. With request() and a timeout as requestFn, an
\* attempt that timed out resolves with the 408 response, which retryRequest
\* returns without another invocation.
RetriedOnlyAfterThrow ==
    /\ rrCalls <= Len(rrThrown) + 1
    /\ rrPc = "calling" => rrCalls = Len(rrThrown) + 1
    /\ rrResult.tag = "resolved"
       => /\ rrPc = "done"
          /\ rrCalls = Len(rrThrown) + 1
          /\ rrResult = fnResult
    /\ (fnPc = "done" /\ fnResult.tag = "resolved" /\ rrPc # "calling")
       => /\ rrPc = "done"
          /\ rrResult = fnResult
    /\ (fnPc = "done" /\ fnTimer = "fired" /\ fnResponse = NoValue /\ rrPc # "calling")
       => /\ rrResult = FnResolved(TimeoutResponse)
          /\ rrResult.value.status = 408
          /\ rrCalls = Len(rrThrown) + 1

RetriedOnlyAfterThrowWitness ==
    /\ rrPc = "done"
    /\ rrMaxRetries = 2
    /\ rrCalls = 1
    /\ rrThrown = << >>
    /\ fnTimer = "fired"
    /\ rrResult.tag = "resolved"
    /\ rrResult.value.status = 408

\* C35: once a call of request() or of isOnline() has settled, the timer it
\* armed is not pending any more: it was cleared on the way out, whichever
\* way the call ended, or it had fired.
NoTimerAfterSettled ==
    /\ fnPc = "done" => fnTimer # "armed"
    /\ onPc = "done" => onTimer # "armed"

====
